---- MODULE Spec2Model ----
(***************************************************************************)
(* A model of caliper's reservoirs (caliper/reservoir.py), of the          *)
(* snapshots they produce (caliper/snapshot.py), of the metrics            *)
(* (caliper/metric.py) and of the registry (caliper/registry.py).          *)
(*                                                                         *)
(* One reservoir is modelled at a time; its class and its size are chosen  *)
(* in Init.  Containers (the list or dict behind self._res, and the tuple  *)
(* behind a snapshot) live in cells of a small heap so that sharing of a   *)
(* container between a reservoir and a snapshot is expressible.            *)
(*                                                                         *)
(* Time is counted in whole units of half the rescale threshold.  Floats   *)
(* are positive powers b^e of the base b = exp(alpha * unit), written as   *)
(* the integer e, with a bounded exponent range below: a result smaller    *)
(* than b^-MinExpMag underflows to 0.0, as IEEE doubles do below           *)
(* exp(-745.2).  The upper end of the double range is never approached by  *)
(* the timestamps modelled (weight <= exp(alpha * a few units)).           *)
(***************************************************************************)
EXTENDS Integers, Sequences, FiniteSets, TLC

VARIABLES
    kind,          \* the reservoir's class
    size,          \* self._size (0 for the unbounded Reservoir, which has none)
    heap,          \* cell -> container contents
    res,           \* self._res: the cell of the reservoir's container
    count,         \* self._count
    now,           \* the clock behind datetime.now()
    landmark,      \* self._landmark
    next_rescale,  \* self._next_rescale
    snap,          \* the snapshot last returned by snapshot(), or NoSnap
    returned,      \* history: the number of update() calls that returned
    hist,          \* history: the values a list reservoir's update() was given
    last,          \* history: what the last call did
    ewma,          \* an EWMA object of its own
    meter,         \* a Meter object (the timer's self._meter, when there is one)
    histogram,     \* the timer's self._histogram: its Counter part
    ctx,           \* the Timer.Context of the timing region in progress
    data,          \* Registry.data: the tree, as path -> node
    calls,         \* history: the calls made on the metrics so far
    registry,      \* caliper._registry: the facade's dict, key -> object
    objects,       \* the objects constructed so far, by identity
    default,       \* Registry._default_registry
    threads        \* the threads inside Registry.default_registry()

vars == <<kind, size, heap, res, count, now, landmark, next_rescale, snap,
          returned, hist, last, ewma, meter, histogram, ctx, data, calls,
          registry, objects, default, threads>>

\* the state of the reservoir and its snapshot
reservoirVars == <<kind, size, heap, res, count, now, landmark, next_rescale,
                   snap, returned, hist>>

\* the state of the module: the facade's dict and the default registry
moduleVars == <<registry, objects, default, threads>>

\* the state of the metrics and the registry
metricVars == <<ewma, meter, histogram, ctx, data, calls, moduleVars>>

----------------------------------------------------------------------------
(* Bounds of the model *)

MaxSize == 2
MaxVal == 2
MaxCount == 3
MaxTime == 3
MaxScaleExp == 1
MinExpMag == 2

Values == 1..MaxVal
Sizes == 1..MaxSize
Cells == 1..2
ClockSteps == {0, 1}
NoSnap == [cls |-> "none"]

\* an object that was not constructed
None == [cls |-> "None"]

Kinds == {"Reservoir", "SlidingWindowReservoir", "UniformReservoir",
          "ExponentiallyDecayingReservoir"}

\* RESCALE_THRESHOLD = timedelta(hours=1): two time units
RESCALE_THRESHOLD == 2

----------------------------------------------------------------------------
(* Floats: b^e is the integer e; 0.0 is FZero, below every exponent, so    *)
(* that the integer order is the order of the floats.                      *)

FZero == -(MinExpMag + 1)

\* a * s, for a factor s <= 1
FMul(a, s) ==
    IF a = FZero \/ s = FZero THEN FZero
    ELSE IF a + s < -MinExpMag THEN FZero
    ELSE a + s

\* exp(alpha * t), t >= 0 in time units
FExp(t) == t

\* exp(-alpha * t), t >= 0 in time units
FExpNeg(t) == IF t > MinExpMag THEN FZero ELSE -t

\* the results of random() that the model draws: b^-j, j in 1..MaxScaleExp
\* (a draw of 0.0 is drawn again by update and never used)
RandomScales == {-j : j \in 1..MaxScaleExp}

\* weight / scale, for a scale in RandomScales
FDiv(w, u) == w - u

\* the real number a float stands for, in units of b^-MinExpMag, with b = 2
RECURSIVE Pow2(_)
Pow2(n) == IF n = 0 THEN 1 ELSE 2 * Pow2(n - 1)

FVal(a) == IF a = FZero THEN 0 ELSE Pow2(a + MinExpMag)

----------------------------------------------------------------------------
(* Lists *)

ListSet(l, i, v) == [l EXCEPT ![i + 1] = v]

\* the order sorted() uses on numbers, and on (value, weight) tuples
NumLeq(a, b) == a <= b

PairLeq(a, b) == a[1] < b[1] \/ (a[1] = b[1] /\ a[2] <= b[2])

RECURSIVE InsertNum(_, _)
InsertNum(s, x) ==
    IF s = <<>> THEN <<x>>
    ELSE IF NumLeq(x, Head(s)) THEN <<x>> \o s
    ELSE <<Head(s)>> \o InsertNum(Tail(s), x)

\* sorted(iterable) over numbers
RECURSIVE Sorted(_)
Sorted(s) == IF s = <<>> THEN <<>> ELSE InsertNum(Sorted(Tail(s)), Head(s))

RECURSIVE InsertPair(_, _)
InsertPair(s, x) ==
    IF s = <<>> THEN <<x>>
    ELSE IF PairLeq(x, Head(s)) THEN <<x>> \o s
    ELSE <<Head(s)>> \o InsertPair(Tail(s), x)

\* sorted(iterable) over (value, weight) tuples
RECURSIVE SortedPairs(_)
SortedPairs(s) ==
    IF s = <<>> THEN <<>> ELSE InsertPair(SortedPairs(Tail(s)), Head(s))

IsSorted(s) == \A i \in 1..(Len(s) - 1) : s[i] <= s[i + 1]

\* randint(a, b): the inclusive range it draws from
RandintRange(a, b) == a..b

----------------------------------------------------------------------------
(* Dicts: a dict is a function from its keys.  The supported Pythons      *)
(* (2.6 to 3.5) iterate a dict in an order the program does not control.   *)

EmptyDict == <<>>

DictKeys(d) == DOMAIN d

\* d[k] = item
DictSet(d, k, item) ==
    [x \in DictKeys(d) \cup {k} |-> IF x = k THEN item ELSE d[x]]

\* del d[k]
DictDel(d, k) == [x \in DictKeys(d) \ {k} |-> d[x]]

\* sorted(d.keys())[0]
FirstKey(d) == CHOOSE k \in DictKeys(d) : \A j \in DictKeys(d) : k <= j

\* list(d.values()), in some order
RECURSIVE DictValuesOf(_, _)
DictValuesOf(d, keys) ==
    IF keys = {} THEN <<>>
    ELSE LET k == CHOOSE x \in keys : TRUE
         IN  <<d[k]>> \o DictValuesOf(d, keys \ {k})

DictValues(d) == DictValuesOf(d, DictKeys(d))

----------------------------------------------------------------------------
\* the module was not imported: no facade, no default registry, no thread
NoModule ==
    /\ registry = None
    /\ objects = <<>>
    /\ default = None
    /\ threads = None

\* no metric and no registry was constructed
NoMetrics ==
    /\ ewma = None
    /\ meter = None
    /\ histogram = None
    /\ ctx = None
    /\ data = None
    /\ NoModule
    /\ calls = None

\* no reservoir was constructed
NoReservoir ==
    /\ kind = "None"
    /\ size = 0
    /\ heap = [c \in Cells |-> <<>>]
    /\ res = 1
    /\ count = 0
    /\ now = 0
    /\ landmark = 0
    /\ next_rescale = 0
    /\ snap = NoSnap
    /\ returned = 0
    /\ hist = <<>>

----------------------------------------------------------------------------
(* BaseReservoir.__init__ and the subclasses' __init__ *)

Init ==
    /\ kind \in Kinds
    /\ size \in (IF kind = "Reservoir" THEN {0} ELSE Sizes)
    /\ heap = [c \in Cells |-> <<>>]
    /\ res = 1
    /\ count = 0
    /\ snap = NoSnap
    /\ returned = 0
    /\ hist = <<>>
    /\ last = [op |-> "init"]
    /\ IF kind = "ExponentiallyDecayingReservoir"
       THEN \* _set_next_rescale() reads the clock, then _landmark does
            /\ now = 0
            /\ next_rescale = now + RESCALE_THRESHOLD
            /\ landmark = now
       ELSE /\ next_rescale = 0
            /\ landmark = 0
            /\ now = 0
    /\ NoMetrics

----------------------------------------------------------------------------
(* Reservoir.update *)

ReservoirUpdate(value) ==
    /\ kind = "Reservoir"
    /\ count < MaxCount
    /\ count' = count + 1
    /\ heap' = [heap EXCEPT ![res] = Append(@, value)]
    /\ hist' = Append(hist, value)
    /\ returned' = returned + 1
    /\ last' = [op |-> "update", value |-> value, randint |-> <<>>]
    /\ UNCHANGED <<kind, size, res, now, landmark, next_rescale, snap>>
    /\ UNCHANGED metricVars

(* SlidingWindowReservoir.update *)

\* a slip: the slot after the one the code overwrites
SlidingWindowStoreShifted(l, cnt, k, value) ==
    IF cnt < k THEN Append(l, value) ELSE ListSet(l, (cnt + 1) % k, value)

SlidingWindowStore(l, cnt, k, value) ==
    IF cnt < k THEN Append(l, value) ELSE ListSet(l, cnt % k, value)

SlidingWindowUpdate(value) ==
    /\ kind = "SlidingWindowReservoir"
    /\ count < MaxCount
    /\ heap' = [heap EXCEPT ![res] = SlidingWindowStore(@, count, size, value)]
    /\ count' = count + 1
    /\ hist' = Append(hist, value)
    /\ returned' = returned + 1
    /\ last' = [op |-> "update", value |-> value, randint |-> <<>>]
    /\ UNCHANGED <<kind, size, res, now, landmark, next_rescale, snap>>
    /\ UNCHANGED metricVars

(* UniformReservoir.update *)

\* a slip: the draw over the count after the increment
UniformDrawInclusive(cnt, k) == IF cnt < k THEN <<>> ELSE <<0, cnt>>

\* the arguments of the randint call update makes, none while filling
UniformDraw(cnt, k) == IF cnt < k THEN <<>> ELSE <<0, cnt - 1>>

\* the container after update stored value, index being what randint returned
UniformStore(l, cnt, k, value, index) ==
    IF cnt < k THEN Append(l, value)
    ELSE IF index < k THEN ListSet(l, index, value)
    ELSE l

\* self._count += 1, whatever randint returned
UniformCount(cnt, k, index) == cnt + 1

UniformUpdate(value) ==
    /\ kind = "UniformReservoir"
    /\ count < MaxCount
    /\ LET draw == UniformDraw(count, size)
       IN  \E index \in (IF draw = <<>> THEN {0}
                         ELSE RandintRange(draw[1], draw[2])) :
             /\ heap' = [heap EXCEPT
                           ![res] = UniformStore(@, count, size, value, index)]
             /\ count' = UniformCount(count, size, index)
             /\ last' = [op |-> "update", value |-> value,
                         randint |-> IF draw = <<>> THEN <<>>
                                     ELSE <<draw \o <<index>>>>]
    /\ hist' = Append(hist, value)
    /\ returned' = returned + 1
    /\ UNCHANGED <<kind, size, res, now, landmark, next_rescale, snap>>
    /\ UNCHANGED metricVars

----------------------------------------------------------------------------
(* ExponentiallyDecayingReservoir *)

\* _sample_weight(t): exp(alpha * t)
SampleWeight(t) == FExp(t)

\* the loop of _rescale: every key and weight times scale, into a new dict.
\* Of the entries whose scaled keys are equal, the one iterated last stays:
\* any of them.
RescaleInto(d, scale) ==
    LET new_keys == {FMul(key, scale) : key \in DictKeys(d)}
        last_of == {c \in [new_keys -> DictKeys(d)] :
                      \A nk \in new_keys : FMul(c[nk], scale) = nk}
    IN  {[nk \in new_keys |-> <<d[c[nk]][1], FMul(d[c[nk]][2], scale)>>] :
           c \in last_of}

\* _rescale on the state st = [entries, landmark, next_rescale], the clock
\* reading t1 in _set_next_rescale and then t2 for the new landmark
RescaleState(st, t1, t2) ==
    {[entries |-> new_res, landmark |-> t2,
      next_rescale |-> t1 + RESCALE_THRESHOLD] :
       new_res \in RescaleInto(st.entries, FExpNeg(t2 - st.landmark))}

\* _rescale_if_needed, reading the clock at t0
RescaleNeeded(t0, nr) == t0 >= nr

\* a slip: a timestamp equal to the landmark passes
LandmarkOkInclusive(timestamp, lm) == timestamp >= lm

\* the assert of update
LandmarkOk(timestamp, lm) == timestamp > lm

\* a slip: the full reservoir inserts and evicts nothing
EDRStoreNoEvict(d, cnt, k, priority, sample) ==
    IF cnt < k THEN DictSet(d, priority, sample)
    ELSE LET first == FirstKey(d)
         IN  IF first < priority /\ priority \notin DictKeys(d)
             THEN DictSet(d, priority, sample)
             ELSE d

\* a slip: the full reservoir evicts the largest stored priority
EDRStoreEvictLargest(d, cnt, k, priority, sample) ==
    IF cnt < k THEN DictSet(d, priority, sample)
    ELSE LET first == FirstKey(d)
             largest == CHOOSE x \in DictKeys(d) : \A j \in DictKeys(d) : j <= x
         IN  IF first < priority /\ priority \notin DictKeys(d)
             THEN DictDel(DictSet(d, priority, sample), largest)
             ELSE d

\* lines 122-128 of update: the dict after the sample was offered
EDRStore(d, cnt, k, priority, sample) ==
    IF cnt < k THEN DictSet(d, priority, sample)
    ELSE LET first == FirstKey(d)
         IN  IF first < priority /\ priority \notin DictKeys(d)
             THEN DictDel(DictSet(d, priority, sample), first)
             ELSE d

\* update(value, timestamp): given says whether a timestamp was passed.
\* The readings of the clock within _rescale_if_needed and _rescale are one
\* instant of the model's clock; the later reading for the timestamp is
\* that instant or the next.
EDRUpdateCall(value, given, ts) ==
    /\ kind = "ExponentiallyDecayingReservoir"
    /\ count < MaxCount
    /\ LET need == RescaleNeeded(now, next_rescale)
           cur == [entries |-> heap[res], landmark |-> landmark,
                   next_rescale |-> next_rescale]
       IN
       \E st \in (IF need THEN RescaleState(cur, now, now) ELSE {cur}) :
       \E d \in (IF given THEN {0} ELSE ClockSteps) :
         LET timestamp == IF given THEN ts ELSE now + d
         IN  /\ now + d <= MaxTime
             /\ now' = now + d
             /\ landmark' = st.landmark
             /\ next_rescale' = st.next_rescale
             /\ IF LandmarkOk(timestamp, st.landmark)
                THEN \E scale \in RandomScales :
                     LET weight == SampleWeight(timestamp - st.landmark)
                         sample == <<value, weight>>
                         priority == FDiv(weight, scale)
                     IN
                     /\ heap' = [heap EXCEPT
                                   ![res] = EDRStore(st.entries, count, size,
                                                     priority, sample)]
                     /\ count' = count + 1
                     /\ returned' = returned + 1
                     /\ last' = [op |-> "update", outcome |-> "ok",
                                 rescaled |-> need,
                                 entries |-> st.entries,
                                 timestamp |-> timestamp,
                                 priority |-> priority, sample |-> sample]
                ELSE /\ heap' = [heap EXCEPT ![res] = st.entries]
                     /\ count' = count
                     /\ returned' = returned
                     /\ last' = [op |-> "update",
                                 outcome |-> "AssertionError",
                                 rescaled |-> need,
                                 entries |-> st.entries,
                                 timestamp |-> timestamp]
    /\ UNCHANGED <<kind, size, res, snap, hist>>

\* update(value)
EDRUpdate(value) ==
    /\ EDRUpdateCall(value, FALSE, 0)
    /\ UNCHANGED metricVars

\* the timestamps passed explicitly: around the current instant
ExplicitTimes == {t \in {now - 1, now + 1} : t >= 0}

\* update(value, timestamp)
EDRUpdateAt(value, ts) ==
    /\ EDRUpdateCall(value, TRUE, ts)
    /\ UNCHANGED metricVars

\* time passes between two calls
AdvanceClock ==
    /\ kind = "ExponentiallyDecayingReservoir"
    /\ now < MaxTime
    /\ now' = now + 1
    /\ last' = [op |-> "clock"]
    /\ UNCHANGED <<kind, size, heap, res, count, landmark, next_rescale,
                   snap, returned, hist>>
    /\ UNCHANGED metricVars

----------------------------------------------------------------------------
(* Snapshots *)

\* a slip: the snapshot keeps the iterable it was given
SnapshotCellShared(src) == src

\* Snapshot.__new__: tuple.__new__ builds the snapshot as an object of its
\* own, in a cell other than the one of the iterable it was given
SnapshotCell(src) == CHOOSE c \in Cells : c # src

\* WeightedSnapshot.__new__: list(iterable) and tuple.__new__ build objects
\* of their own
WeightedSnapshotCell(src) == CHOOSE c \in Cells : c # src

\* Snapshot.__new__: tuple(sorted(float(x) for x in iterable))
SnapshotItems(iterable) == Sorted(iterable)

RECURSIVE SumTo(_, _)
SumTo(s, n) == IF n = 0 THEN 0 ELSE s[n] + SumTo(s, n - 1)

\* WeightedSnapshot.__new__ on a list of (value, weight): the tuple of the
\* values, _normweights and _quantiles, fractions being <<numerator,
\* denominator>>
WeightedSnapshotNew(pairs) ==
    LET sorted == SortedPairs(pairs)
        reals == [i \in DOMAIN sorted |-> FVal(sorted[i][2])]
        sumweight == SumTo(reals, Len(reals))
    IN  [items |-> [i \in DOMAIN sorted |-> sorted[i][1]],
         normweights |-> [i \in DOMAIN sorted |-> <<reals[i], sumweight>>],
         quantiles |-> [i \in DOMAIN sorted |->
                          <<SumTo(reals, i - 1), sumweight>>]]

\* w / sumweight raises ZeroDivisionError when the weights sum to 0.0
WeightsDivide(pairs) ==
    pairs = <<>> \/ \E i \in DOMAIN pairs : pairs[i][2] # FZero

\* BaseReservoir.snapshot
ListSnapshot ==
    /\ kind # "ExponentiallyDecayingReservoir"
    /\ LET c == SnapshotCell(res)
       IN  /\ heap' = [heap EXCEPT ![c] = SnapshotItems(heap[res])]
           /\ snap' = [cls |-> "Snapshot", ref |-> c]
    /\ last' = [op |-> "snapshot", outcome |-> "ok"]
    /\ UNCHANGED <<kind, size, res, count, now, landmark, next_rescale,
                   returned, hist>>
    /\ UNCHANGED metricVars

\* ExponentiallyDecayingReservoir.snapshot
EDRSnapshot ==
    /\ kind = "ExponentiallyDecayingReservoir"
    /\ LET pairs == DictValues(heap[res])
           c == WeightedSnapshotCell(res)
       IN  IF WeightsDivide(pairs)
           THEN /\ heap' = [heap EXCEPT ![c] = WeightedSnapshotNew(pairs)]
                /\ snap' = [cls |-> "WeightedSnapshot", ref |-> c]
                /\ last' = [op |-> "snapshot", outcome |-> "ok"]
           ELSE /\ last' = [op |-> "snapshot",
                            outcome |-> "ZeroDivisionError"]
                /\ UNCHANGED <<heap, snap>>
    /\ UNCHANGED <<kind, size, res, count, now, landmark, next_rescale,
                   returned, hist>>
    /\ UNCHANGED metricVars

----------------------------------------------------------------------------
(* BaseReservoir.__len__ *)

\* a slip: the number of retained samples
ReservoirLenRetained(cnt, container) == Cardinality(DOMAIN container)

ReservoirLen(cnt, container) == cnt

----------------------------------------------------------------------------

Next ==
    \/ \E v \in Values : ReservoirUpdate(v)
    \/ \E v \in Values : SlidingWindowUpdate(v)
    \/ \E v \in Values : UniformUpdate(v)
    \/ \E v \in Values : EDRUpdate(v)
    \/ \E v \in Values : \E ts \in ExplicitTimes : EDRUpdateAt(v, ts)
    \/ AdvanceClock

\* the reservoirs under update()
Spec == Init /\ [][Next]_vars

NextSnapshot ==
    \/ Next
    \/ ListSnapshot
    \/ EDRSnapshot

\* the reservoirs under update() and snapshot()
SpecSnapshot == Init /\ [][NextSnapshot]_vars

----------------------------------------------------------------------------
(* Fractions: the floats of the quantile and rate arithmetic are the       *)
(* rationals <<numerator, denominator>> in lowest terms, denominator > 0.  *)

Abs(x) == IF x < 0 THEN -x ELSE x

RECURSIVE GCD(_, _)
GCD(a, b) == IF b = 0 THEN a ELSE GCD(b, a % b)

Rat(n, d) ==
    LET g == GCD(Abs(n), Abs(d))
        sgn == IF d < 0 THEN -1 ELSE 1
    IN  <<sgn * (n \div g), sgn * (d \div g)>>

\* float(n) of an int
RatOf(n) == <<n, 1>>

RatAdd(x, y) ==
    LET g == GCD(x[2], y[2])
    IN  Rat(x[1] * (y[2] \div g) + y[1] * (x[2] \div g), x[2] * (y[2] \div g))

RatNeg(x) == <<-x[1], x[2]>>

RatSub(x, y) == RatAdd(x, RatNeg(y))

RatMul(x, y) ==
    LET a == Rat(x[1], y[2])
        b == Rat(y[1], x[2])
    IN  <<a[1] * b[1], a[2] * b[2]>>

\* x / y, y > 0
RatDiv(x, y) == RatMul(x, <<y[2], y[1]>>)

RatLeq(x, y) == RatSub(x, y)[1] <= 0

RatLt(x, y) == RatSub(x, y)[1] < 0

\* int(x): towards zero
RatInt(x) == IF x[1] >= 0 THEN x[1] \div x[2] ELSE -((-x[1]) \div x[2])

----------------------------------------------------------------------------
(* Snapshot.get_value and WeightedSnapshot.get_value *)

QuantileSteps == 5

\* the quantiles asked for: multiples of 1/QuantileSteps, from one step
\* below 0 to one step above 1
Quantiles == {Rat(j, QuantileSteps) : j \in (-1)..(QuantileSteps + 1)}

\* not 0 <= quantile <= 1
QuantileRejected(quantile) ==
    ~(RatLeq(RatOf(0), quantile) /\ RatLeq(quantile, RatOf(1)))

\* a slip: the position over len(self) instead of len(self) + 1
SnapshotPosOverLen(len, quantile) == RatMul(quantile, RatOf(len))

\* pos = quantile * float(len(self) + 1)
SnapshotPos(len, quantile) == RatMul(quantile, RatOf(len + 1))

\* Snapshot.get_value(quantile) on the tuple self
SnapshotGetValue(self, quantile) ==
    IF QuantileRejected(quantile) THEN [outcome |-> "ValueError"]
    ELSE IF Len(self) = 0 THEN [outcome |-> "ok", value |-> RatOf(0)]
    ELSE LET pos == SnapshotPos(Len(self), quantile)
             index == RatInt(pos)
         IN  IF index = 0
             THEN [outcome |-> "ok", value |-> RatOf(self[1])]
             ELSE IF index >= Len(self)
             THEN [outcome |-> "ok", value |-> RatOf(self[Len(self)])]
             ELSE LET lower == RatOf(self[index])
                      upper == RatOf(self[index + 1])
                  IN  [outcome |-> "ok",
                       value |-> RatAdd(lower,
                                        RatMul(RatSub(pos, RatOf(index)),
                                               RatSub(upper, lower)))]

\* the iterables a snapshot is built from
RECURSIVE SeqsUpTo(_, _)
SeqsUpTo(S, n) ==
    IF n = 0 THEN {<<>>}
    ELSE LET shorter == SeqsUpTo(S, n - 1)
         IN  shorter \cup {Append(q, x) : q \in shorter, x \in S}

\* Snapshot(iterable): the one snapshot of a behaviour without a reservoir
NewSnapshot(iterable) ==
    /\ kind = "None"
    /\ snap = NoSnap
    /\ LET c == SnapshotCell(res)
       IN  /\ heap' = [heap EXCEPT ![c] = SnapshotItems(iterable)]
           /\ snap' = [cls |-> "Snapshot", ref |-> c]
    /\ last' = [op |-> "Snapshot", outcome |-> "ok"]
    /\ UNCHANGED <<kind, size, res, count, now, landmark, next_rescale,
                   returned, hist>>
    /\ UNCHANGED metricVars

\* snapshot.get_value(quantile)
GetValue(quantile) ==
    /\ snap.cls = "Snapshot"
    /\ last' = [op |-> "get_value", quantile |-> quantile,
                result |-> SnapshotGetValue(heap[snap.ref], quantile)]
    /\ UNCHANGED reservoirVars
    /\ UNCHANGED metricVars

\* the weights of the pairs a weighted snapshot is built from: 0.0, 1, b
SnapshotWeights == {FZero, 0, 1}

\* a slip: the first prefix sum that reaches the quantile stops the loop
WeightedSnapshotPosReaching(quantiles, quantile) ==
    LET hits == {i \in DOMAIN quantiles :
                   RatLeq(quantile, Rat(quantiles[i][1], quantiles[i][2]))}
    IN  IF hits = {} THEN Len(quantiles)
        ELSE (CHOOSE i \in hits : \A j \in hits : i <= j) - 1

\* the loop of get_value: the index (from 0) of the first prefix sum above
\* the quantile, len(self) when the loop ends without a break
WeightedSnapshotPos(quantiles, quantile) ==
    LET hits == {i \in DOMAIN quantiles :
                   RatLt(quantile, Rat(quantiles[i][1], quantiles[i][2]))}
    IN  IF hits = {} THEN Len(quantiles)
        ELSE (CHOOSE i \in hits : \A j \in hits : i <= j) - 1

\* WeightedSnapshot.get_value(quantile) on self = [items, normweights,
\* quantiles]
WeightedSnapshotGetValue(self, quantile) ==
    IF QuantileRejected(quantile) THEN [outcome |-> "ValueError"]
    ELSE LET pos == WeightedSnapshotPos(self.quantiles, quantile)
         IN  IF Len(self.items) = 0 THEN [outcome |-> "IndexError"]
             ELSE IF pos <= 1
             THEN [outcome |-> "ok", value |-> RatOf(self.items[1])]
             ELSE [outcome |-> "ok", value |-> RatOf(self.items[pos])]

\* WeightedSnapshot(pairs): the one snapshot of a behaviour without a
\* reservoir
NewWeightedSnapshot(pairs) ==
    /\ kind = "None"
    /\ snap = NoSnap
    /\ LET c == WeightedSnapshotCell(res)
       IN  IF WeightsDivide(pairs)
           THEN /\ heap' = [heap EXCEPT ![c] = WeightedSnapshotNew(pairs)]
                /\ snap' = [cls |-> "WeightedSnapshot", ref |-> c]
                /\ last' = [op |-> "WeightedSnapshot", outcome |-> "ok"]
           ELSE /\ last' = [op |-> "WeightedSnapshot",
                            outcome |-> "ZeroDivisionError"]
                /\ UNCHANGED <<heap, snap>>
    /\ UNCHANGED <<kind, size, res, count, now, landmark, next_rescale,
                   returned, hist>>
    /\ UNCHANGED metricVars

\* weighted_snapshot.get_value(quantile)
WeightedGetValue(quantile) ==
    /\ snap.cls = "WeightedSnapshot"
    /\ last' = [op |-> "get_value", quantile |-> quantile,
                result |-> WeightedSnapshotGetValue(heap[snap.ref], quantile)]
    /\ UNCHANGED reservoirVars
    /\ UNCHANGED metricVars

InitQuantile ==
    /\ NoReservoir
    /\ NoMetrics
    /\ last = [op |-> "init"]

NextQuantile ==
    \/ \E iterable \in SeqsUpTo(Values, MaxCount) : NewSnapshot(iterable)
    \/ \E pairs \in SeqsUpTo(Values \X SnapshotWeights, MaxCount) :
         NewWeightedSnapshot(pairs)
    \/ \E q \in Quantiles : GetValue(q)
    \/ \E q \in Quantiles : WeightedGetValue(q)

\* snapshots built from an iterable, under get_value
SpecQuantile == InitQuantile /\ [][NextQuantile]_vars

----------------------------------------------------------------------------
(* EWMA *)

MaxTicks == 3
MaxUpdates == 3

\* EWMA.INTERVAL = 5
EWMA_INTERVAL == 5

\* the n of update(n) and mark(n)
Marks == {1, 2}

\* the smoothing constants and the intervals an EWMA of its own is built with
Alphas == {<<1, 2>>, <<1, 4>>}

Intervals == {EWMA_INTERVAL, 1}

\* EWMA.__init__
EWMANew(alpha, interval) ==
    [cls |-> "EWMA", alpha |-> alpha, interval |-> RatOf(interval),
     uncounted |-> 0, initialized |-> FALSE, rate |-> RatOf(0)]

\* EWMA.update(n)
EWMAUpdate(e, n) == [e EXCEPT !.uncounted = @ + n]

\* a slip: the first tick smooths from the rate 0 like every other tick
EWMATickAlwaysSmooths(e) ==
    LET instant_rate == RatDiv(RatOf(e.uncounted), e.interval)
    IN  [e EXCEPT !.uncounted = 0,
                  !.rate = RatAdd(@, RatMul(e.alpha, RatSub(instant_rate, @))),
                  !.initialized = TRUE]

\* EWMA.tick()
EWMATick(e) ==
    LET cnt == RatOf(e.uncounted)
        instant_rate == RatDiv(cnt, e.interval)
    IN  IF e.initialized
        THEN [e EXCEPT !.uncounted = 0,
                       !.rate = RatAdd(@, RatMul(e.alpha,
                                                 RatSub(instant_rate, @)))]
        ELSE [e EXCEPT !.uncounted = 0,
                       !.rate = instant_rate,
                       !.initialized = TRUE]

\* ewma.update(n)
EwmaUpdate(n) ==
    /\ ewma # None
    /\ calls.update < MaxUpdates
    /\ ewma' = EWMAUpdate(ewma, n)
    /\ calls' = [calls EXCEPT !.update = @ + 1]
    /\ last' = [op |-> "update", n |-> n]
    /\ UNCHANGED reservoirVars
    /\ UNCHANGED <<meter, histogram, ctx, data, moduleVars>>

\* ewma.tick()
EwmaTick ==
    /\ ewma # None
    /\ calls.tick < MaxTicks
    /\ ewma' = EWMATick(ewma)
    /\ calls' = [calls EXCEPT !.tick = @ + 1]
    /\ last' = [op |-> "tick"]
    /\ UNCHANGED reservoirVars
    /\ UNCHANGED <<meter, histogram, ctx, data, moduleVars>>

InitEWMA ==
    /\ NoReservoir
    /\ \E alpha \in Alphas : \E interval \in Intervals :
         ewma = EWMANew(alpha, interval)
    /\ meter = None
    /\ histogram = None
    /\ ctx = None
    /\ data = None
    /\ NoModule
    /\ calls = [update |-> 0, tick |-> 0]
    /\ last = [op |-> "init"]

NextEWMA ==
    \/ \E n \in Marks : EwmaUpdate(n)
    \/ EwmaTick

\* an EWMA under update() and tick()
SpecEWMA == InitEWMA /\ [][NextEWMA]_vars

----------------------------------------------------------------------------
(* Meter.  Its clock counts whole seconds. *)

MaxMeterTime == 14
MaxMarks == 3

\* Meter.INTERVAL = 5
METER_INTERVAL == 5

\* M1_ALPHA, M5_ALPHA, M15_ALPHA = 1 - exp(-INTERVAL / 60.0 / {1, 5, 15}):
\* 0.07996, 0.01653, 0.00554, to the nearest simple fraction
M1_ALPHA == <<2, 25>>

M5_ALPHA == <<1, 60>>

M15_ALPHA == <<1, 180>>

Rates == {"m1rate", "m5rate", "m15rate"}

\* Meter.__init__, the clock reading t
MeterNew(interval, t) ==
    [cls |-> "Meter", count |-> 0, interval |-> interval, last_tick |-> t,
     m1rate |-> EWMANew(M1_ALPHA, EWMA_INTERVAL),
     m5rate |-> EWMANew(M5_ALPHA, EWMA_INTERVAL),
     m15rate |-> EWMANew(M15_ALPHA, EWMA_INTERVAL)]

\* no call was made yet
NoCalls ==
    [mark |-> 0, sum |-> 0,
     tick |-> [r \in Rates |-> 0], update |-> [r \in Rates |-> 0],
     timer_update |-> 0, positive |-> 0, raised |-> 0,
     regions |-> 0, forwarded |-> 0]

\* A meter st.meter with the history st.calls of the calls it made on its
\* EWMAs: self.<rate>.tick() and self.<rate>.update(n)
TickRate(st, rate) ==
    [meter |-> [st.meter EXCEPT ![rate] = EWMATick(@)],
     calls |-> [st.calls EXCEPT !.tick[rate] = @ + 1]]

UpdateRate(st, rate, n) ==
    [meter |-> [st.meter EXCEPT ![rate] = EWMAUpdate(@, n)],
     calls |-> [st.calls EXCEPT !.update[rate] = @ + 1]]

\* a slip: a tick is due once a full interval has passed
MeterTickDueInclusive(age, interval) == age >= interval

\* age > self._interval
MeterTickDue(age, interval) == age > interval

\* a slip: a started interval counts as a whole one
MeterTickCountRoundsUp(age, interval) ==
    RatInt(Rat(age + interval - 1, interval))

\* int(age / self._interval)
MeterTickCount(age, interval) == RatInt(Rat(age, interval))

\* the loop of _tick
RECURSIVE MeterTickLoop(_, _)
MeterTickLoop(st, k) ==
    IF k = 0 THEN st
    ELSE MeterTickLoop(
           TickRate(TickRate(TickRate(st, "m1rate"), "m5rate"), "m15rate"),
           k - 1)

\* Meter._tick, the clock reading t
MeterTick(st, t) ==
    LET new_tick == t
        age == new_tick - st.meter.last_tick
    IN  IF MeterTickDue(age, st.meter.interval)
        THEN MeterTickLoop([st EXCEPT !.meter.last_tick = new_tick],
                           MeterTickCount(age, st.meter.interval))
        ELSE st

\* a slip: the fifteen minute rate is not told of the mark
MeterMarkSkipsRate(st, t, n) ==
    LET ticked == MeterTick(st, t)
        counted == [ticked EXCEPT !.meter.count = @ + n]
    IN  UpdateRate(UpdateRate(counted, "m1rate", n), "m5rate", n)

\* Meter.mark(n), the clock reading t
MeterMark(st, t, n) ==
    LET ticked == MeterTick(st, t)
        counted == [ticked EXCEPT !.meter.count = @ + n]
    IN  UpdateRate(UpdateRate(UpdateRate(counted, "m1rate", n), "m5rate", n),
                   "m15rate", n)

\* meter.mark(n)
Mark(n) ==
    /\ meter # None
    /\ histogram = None
    /\ calls.mark < MaxMarks
    /\ LET st == MeterMark([meter |-> meter, calls |-> calls], now, n)
       IN  /\ meter' = st.meter
           /\ calls' = [st.calls EXCEPT !.mark = @ + 1, !.sum = @ + n]
    /\ last' = [op |-> "mark", n |-> n, age |-> now - meter.last_tick]
    /\ UNCHANGED reservoirVars
    /\ UNCHANGED <<ewma, histogram, ctx, data, moduleVars>>

\* a second passes between two calls
MeterClock ==
    /\ meter # None
    /\ histogram = None
    /\ now < MaxMeterTime
    /\ now' = now + 1
    /\ last' = [op |-> "clock"]
    /\ UNCHANGED <<kind, size, heap, res, count, landmark, next_rescale,
                   snap, returned, hist>>
    /\ UNCHANGED metricVars

InitMeter ==
    /\ NoReservoir
    /\ ewma = None
    /\ meter = MeterNew(METER_INTERVAL, now)
    /\ histogram = None
    /\ ctx = None
    /\ data = None
    /\ NoModule
    /\ calls = NoCalls
    /\ last = [op |-> "init"]

NextMeter ==
    \/ \E n \in Marks : Mark(n)
    \/ MeterClock

\* a meter under mark()
SpecMeter == InitMeter /\ [][NextMeter]_vars

----------------------------------------------------------------------------
(* Timer, with the histogram and the meter its __init__ builds: the        *)
(* histogram's reservoir is the default ExponentiallyDecayingReservoir,     *)
(* held in the reservoir variables.                                         *)

MaxTimerUpdates == 1
MaxRegions == 1

\* the durations Timer.update is given directly
Durations == {-1, 0, 1}

\* Counter.__init__ of the histogram
HistogramNew == [cls |-> "Histogram", count |-> 0]

\* Counter.inc(self)
CounterInc(c) == [c EXCEPT !.count = @ + 1]

\* a slip: a duration of 0 is recorded too
TimerRecordsNonNegative(duration) == duration >= 0

\* duration > 0
TimerRecords(duration) == duration > 0

\* Timer.update(duration), fwd telling whether __exit__ made the call:
\* Histogram.update counts, then updates the reservoir; the meter is marked
\* when that returned.  The mark reads the clock after the reservoir did.
TimerUpdateCall(duration, fwd) ==
    IF TimerRecords(duration)
    THEN /\ histogram' = CounterInc(histogram)
         /\ EDRUpdateCall(duration, FALSE, 0)
         /\ IF last'.outcome = "ok"
            THEN LET st == MeterMark([meter |-> meter, calls |-> calls],
                                     now', 1)
                 IN  /\ meter' = st.meter
                     /\ calls' = [st.calls EXCEPT !.mark = @ + 1,
                                                  !.sum = @ + 1,
                                                  !.timer_update = @ + 1,
                                                  !.positive = @ + 1,
                                                  !.forwarded = @ + fwd]
            ELSE /\ meter' = meter
                 /\ calls' = [calls EXCEPT !.timer_update = @ + 1,
                                           !.raised = @ + 1,
                                           !.forwarded = @ + fwd]
    ELSE /\ calls' = [calls EXCEPT !.timer_update = @ + 1,
                                   !.forwarded = @ + fwd]
         /\ last' = [op |-> "timer_update", outcome |-> "discarded",
                     duration |-> duration]
         /\ UNCHANGED reservoirVars
         /\ UNCHANGED <<meter, histogram>>

\* timer.update(duration)
TimerUpdate(duration) ==
    /\ histogram # None
    /\ calls.timer_update < MaxTimerUpdates
    /\ TimerUpdateCall(duration, 0)
    /\ UNCHANGED <<ewma, ctx, data, moduleVars>>

\* Timer.time(update_on_success, update_on_failure): Context.__init__
TimerTime(update_on_success, update_on_failure) ==
    /\ histogram # None
    /\ IF ctx = None THEN TRUE ELSE ctx.state = "exited"
    /\ calls.regions < MaxRegions
    /\ ctx' = [cls |-> "Context", state |-> "created",
               update_on_success |-> update_on_success,
               update_on_failure |-> update_on_failure,
               aborted |-> FALSE, started |-> -1, exc_type |-> FALSE]
    /\ calls' = [calls EXCEPT !.regions = @ + 1]
    /\ last' = [op |-> "time"]
    /\ UNCHANGED reservoirVars
    /\ UNCHANGED <<ewma, meter, histogram, data, moduleVars>>

\* Context.__enter__
ContextEnter ==
    /\ ctx # None
    /\ ctx.state = "created"
    /\ ctx' = [ctx EXCEPT !.state = "entered", !.started = now]
    /\ last' = [op |-> "enter"]
    /\ UNCHANGED reservoirVars
    /\ UNCHANGED <<ewma, meter, histogram, data, calls, moduleVars>>

\* Context.abort
ContextAbort ==
    /\ ctx # None
    /\ ctx.state \in {"created", "entered"}
    /\ ~ctx.aborted
    /\ ctx' = [ctx EXCEPT !.aborted = TRUE]
    /\ last' = [op |-> "abort"]
    /\ UNCHANGED reservoirVars
    /\ UNCHANGED <<ewma, meter, histogram, data, calls, moduleVars>>

\* a slip: abort() is not looked at
ContextForwardsAborted(c, exc_type) ==
    \/ exc_type /\ c.update_on_failure
    \/ ~exc_type /\ c.update_on_success

\* the conditions of __exit__ under which it calls self._timer.update
ContextForwards(c, exc_type) ==
    /\ ~c.aborted
    /\ \/ exc_type /\ c.update_on_failure
       \/ ~exc_type /\ c.update_on_success

\* Context.__exit__(exc_type, ...), exc_type telling whether the region
\* raised
ContextExit(exc_type) ==
    /\ ctx # None
    /\ ctx.state = "entered"
    /\ ctx' = [ctx EXCEPT !.state = "exited", !.exc_type = exc_type]
    /\ IF ContextForwards(ctx, exc_type)
       THEN LET delta == now - ctx.started
            IN  TimerUpdateCall(delta, 1)
       ELSE /\ last' = [op |-> "exit"]
            /\ UNCHANGED reservoirVars
            /\ UNCHANGED <<meter, histogram, calls>>
    /\ UNCHANGED <<ewma, data, moduleVars>>

\* Timer.__init__ with no reservoir given
InitTimer ==
    /\ kind = "ExponentiallyDecayingReservoir"
    /\ size \in Sizes
    /\ heap = [c \in Cells |-> <<>>]
    /\ res = 1
    /\ count = 0
    /\ now = 0
    /\ next_rescale = now + RESCALE_THRESHOLD
    /\ landmark = now
    /\ snap = NoSnap
    /\ returned = 0
    /\ hist = <<>>
    /\ last = [op |-> "init"]
    /\ ewma = None
    /\ histogram = HistogramNew
    /\ meter = MeterNew(METER_INTERVAL, now)
    /\ ctx = None
    /\ data = None
    /\ NoModule
    /\ calls = NoCalls

NextTimer ==
    \/ \E d \in Durations : TimerUpdate(d)
    \/ \E s \in BOOLEAN : \E f \in BOOLEAN : TimerTime(s, f)
    \/ ContextEnter
    \/ ContextAbort
    \/ \E exc_type \in BOOLEAN : ContextExit(exc_type)
    \/ AdvanceClock

\* a timer under update() and its timing regions
SpecTimer == InitTimer /\ [][NextTimer]_vars

----------------------------------------------------------------------------
(* Registry.  The tree self.data is the function from the paths of its     *)
(* nodes to "dict", for a nested dict, or to the metric stored there; the  *)
(* empty path is self.data itself.  A name is the list of its labels, as   *)
(* _split_name returns it for a name all of whose labels are valid.        *)

MaxLeaves == 2

Labels == {"a", "b"}

Metrics == {"m1", "m2"}

\* the names register and query are given: one to three labels
Names == SeqsUpTo(Labels, 3) \ {<<>>}

\* UserDict.__init__: self.data = {}
RegistryNew == [p \in {<<>>} |-> "dict"]

\* label in data, data being the node at path
LabelIn(tree, path, label) == Append(path, label) \in DOMAIN tree

\* isinstance(data[label], dict)
IsDict(tree, path) == tree[path] = "dict"

\* data[label] = node
TreeSet(tree, path, node) ==
    [p \in DOMAIN tree \cup {path} |-> IF p = path THEN node ELSE tree[p]]

\* the loop of register has used up the labels: the method returns
RegisterEndOfName(tree, path) == "ok"

\* a slip: a label that holds a metric is stored over
RegisterOverLeaf(tree, child, labels, metric) ==
    [data |-> TreeSet(tree, child, metric), outcome |-> "ok"]

\* the branch of register for a label that holds a metric
RegisterAtLeaf(tree, child, labels, metric) ==
    [data |-> tree, outcome |-> "DuplicateName"]

\* the loop of register, data being the node at path
RECURSIVE RegisterWalk(_, _, _, _)
RegisterWalk(tree, path, labels, metric) ==
    IF Len(labels) = 0
    THEN [data |-> tree, outcome |-> RegisterEndOfName(tree, path)]
    ELSE LET label == Head(labels)
             rest == Tail(labels)
             child == Append(path, label)
         IN  IF LabelIn(tree, path, label)
             THEN IF IsDict(tree, child)
                  THEN RegisterWalk(tree, child, rest, metric)
                  ELSE RegisterAtLeaf(tree, child, rest, metric)
             ELSE IF Len(rest) > 0
             THEN RegisterWalk(TreeSet(tree, child, "dict"), child, rest,
                               metric)
             ELSE RegisterWalk(TreeSet(tree, child, metric), child, rest,
                               metric)

\* label in data, data being a metric: metrics are no containers
QueryThroughLeaf(tree, path) == [outcome |-> "TypeError"]

\* the loop of query, data being the node at path; the value returned is
\* the metric, or "dict" for the nested dict at at
RECURSIVE QueryWalk(_, _, _)
QueryWalk(tree, path, labels) ==
    IF Len(labels) = 0 THEN [outcome |-> "ok", value |-> "None"]
    ELSE LET label == Head(labels)
             rest == Tail(labels)
             child == Append(path, label)
         IN  IF ~IsDict(tree, path) THEN QueryThroughLeaf(tree, path)
             ELSE IF LabelIn(tree, path, label)
             THEN IF Len(rest) = 0
                  THEN [outcome |-> "ok", value |-> tree[child], at |-> child]
                  ELSE QueryWalk(tree, child, rest)
             ELSE [outcome |-> "ok", value |-> "None"]

\* the metrics stored in the tree
Leaves(tree) == {p \in DOMAIN tree : tree[p] # "dict"}

\* registry.register(name, metric)
Register(name, metric) ==
    /\ data # None
    /\ Cardinality(Leaves(data)) < MaxLeaves
    /\ LET r == RegisterWalk(data, <<>>, name, metric)
       IN  /\ data' = r.data
           /\ last' = [op |-> "register", name |-> name, metric |-> metric,
                       outcome |-> r.outcome]
    /\ UNCHANGED reservoirVars
    /\ UNCHANGED <<ewma, meter, histogram, ctx, calls, moduleVars>>

\* registry.query(name)
Query(name) ==
    /\ data # None
    /\ last' = [op |-> "query", name |-> name,
                result |-> QueryWalk(data, <<>>, name)]
    /\ UNCHANGED reservoirVars
    /\ UNCHANGED metricVars

InitRegistry ==
    /\ NoReservoir
    /\ ewma = None
    /\ meter = None
    /\ histogram = None
    /\ ctx = None
    /\ data = RegistryNew
    /\ NoModule
    /\ calls = None
    /\ last = [op |-> "init"]

NextRegistry ==
    \/ \E name \in Names : \E metric \in Metrics : Register(name, metric)
    \/ \E name \in Names : Query(name)

\* a registry under register() and query()
SpecRegistry == InitRegistry /\ [][NextRegistry]_vars

----------------------------------------------------------------------------
(* Registry._split_name.  A name as the caller writes it is the sequence   *)
(* of its characters; register and query split it and match every label    *)
(* against RE_LABEL before they walk the tree.                             *)

MaxNameLen == 2

MaxNamed == 1

\* the characters names are written with: a letter, a digit, the separator
\* and the newline
Chars == {"a", "1", ".", "\n"}

\* the names register and query are given, the empty name among them
NameStrings == SeqsUpTo(Chars, MaxNameLen)

\* s.find('.'): the first index of the separator in s, 0 when there is none
RECURSIVE FindDot(_, _)
FindDot(s, i) ==
    IF i > Len(s) THEN 0
    ELSE IF s[i] = "." THEN i
    ELSE FindDot(s, i + 1)

\* name.split('.'): never the empty list; one empty label for the empty name
RECURSIVE StrSplit(_)
StrSplit(s) ==
    LET i == FindDot(s, 1)
    IN  IF i = 0 THEN <<s>>
        ELSE <<SubSeq(s, 1, i - 1)>> \o StrSplit(SubSeq(s, i + 1, Len(s)))

\* [a-z_][a-z0-9_]* matches all of s: over Chars, [a-z_] is the letter
\* and [a-z0-9_] the letter and the digit
LabelBody(s) ==
    /\ Len(s) > 0
    /\ s[1] \in {"a"}
    /\ \A i \in 2..Len(s) : s[i] \in {"a", "1"}

\* RE_LABEL.match(label): $ matches at the end of the label and before a
\* newline that ends it
ReLabelMatch(label) ==
    \/ LabelBody(label)
    \/ /\ Len(label) > 0
       /\ label[Len(label)] = "\n"
       /\ LabelBody(SubSeq(label, 1, Len(label) - 1))

\* self._split_name(name): the labels, or the exception raised
SplitName(name) ==
    LET labels == StrSplit(name)
    IN  IF Len(labels) = 0 THEN [outcome |-> "InvalidName"]
        ELSE IF \E i \in 1..Len(labels) : ~ReLabelMatch(labels[i])
        THEN [outcome |-> "InvalidLabel"]
        ELSE [outcome |-> "ok", labels |-> labels]

\* registry.register(name, metric), name as written
RegisterName(name, metric) ==
    /\ data # None
    /\ LET s == SplitName(name)
           r == IF s.outcome = "ok"
                THEN RegisterWalk(data, <<>>, s.labels, metric)
                ELSE [data |-> data, outcome |-> s.outcome]
       IN  /\ Cardinality(Leaves(r.data)) <= MaxNamed
           /\ data' = r.data
           /\ last' = [op |-> "register", name |-> name, metric |-> metric,
                       outcome |-> r.outcome]
    /\ UNCHANGED reservoirVars
    /\ UNCHANGED <<ewma, meter, histogram, ctx, calls, moduleVars>>

\* registry.query(name), name as written
QueryName(name) ==
    /\ data # None
    /\ LET s == SplitName(name)
           r == IF s.outcome = "ok"
                THEN QueryWalk(data, <<>>, s.labels)
                ELSE [outcome |-> s.outcome]
       IN  last' = [op |-> "query", name |-> name, outcome |-> r.outcome,
                    result |-> r]
    /\ UNCHANGED reservoirVars
    /\ UNCHANGED metricVars

NextNames ==
    \/ \E name \in NameStrings : RegisterName(name, "m1")
    \/ \E name \in NameStrings : QueryName(name)

\* a registry under register() and query() with names as written
SpecNames == InitRegistry /\ [][NextNames]_vars

----------------------------------------------------------------------------
(* The facade of caliper/__init__.py: counter, gauge, histogram, meter and *)
(* timer are get_or_create_metric with the class bound.  An object is its  *)
(* index in objects; 0 stands for None.  A name is the list of its labels, *)
(* the empty list for a name that is falsy: None or ''.                    *)

MaxObjects == 2
MaxUses == 1

Classes == {"Counter", "Gauge", "Histogram", "Meter", "Timer"}

\* the names the facade functions are given
FacadeNames == {<<>>, <<"x">>}

\* 'a%s' % uuid.uuid4().hex: the n-th draw differs from every draw before it
Uuid(n) == <<(<<"a1", "a2", "a3", "a4", "a5", "a6">>)[n]>>

\* cls(*args, **kwargs): a new metric; name is the name it was asked under
MetricNew(cls, name) == [cls |-> cls, name |-> name, state |-> 0]

\* _split_registry_key('%s.%s' % (name, cls.__name__)), for a name of valid
\* labels
RegistryKey(name, cls) == Append(name, cls)

\* _registry.get(key)
RegistryGet(reg, key) == IF key \in DOMAIN reg THEN reg[key] ELSE 0

\* a slip: a metric that was never updated counts as false
TruthyWhenUpdated(objs, metric) == metric # 0 /\ objs[metric].state > 0

\* `if metric:` no metric class defines __bool__ or __len__
Truthy(objs, metric) == metric # 0

\* _registry[key] = metric
RegistrySet(reg, key, metric) ==
    [k \in DOMAIN reg \cup {key} |-> IF k = key THEN metric ELSE reg[k]]

\* get_or_create_metric(cls, name): the dict, the objects and what the call
\* returns or raises
GetOrCreate(reg, objs, cls, name) ==
    LET named == IF name = <<>> THEN Uuid(Len(objs) + 1) ELSE name
        key == RegistryKey(named, cls)
        metric == RegistryGet(reg, key)
        new == Len(objs) + 1
    IN  IF Truthy(objs, metric)
        THEN IF objs[metric].cls # cls
             THEN [registry |-> reg, objects |-> objs,
                   outcome |-> "TypeError", value |-> 0]
             ELSE [registry |-> reg, objects |-> objs,
                   outcome |-> "ok", value |-> metric]
        ELSE [registry |-> RegistrySet(reg, key, new),
              objects |-> Append(objs, MetricNew(cls, name)),
              outcome |-> "ok", value |-> new]

\* counter(name), gauge(name), histogram(name), meter(name), timer(name)
Facade(cls, name) ==
    /\ registry # None
    /\ LET r == GetOrCreate(registry, objects, cls, name)
       IN  /\ Len(r.objects) <= MaxObjects
           /\ registry' = r.registry
           /\ objects' = r.objects
           /\ last' = [op |-> "facade", cls |-> cls, name |-> name,
                       outcome |-> r.outcome, value |-> r.value]
    /\ UNCHANGED reservoirVars
    /\ UNCHANGED <<ewma, meter, histogram, ctx, data, calls>>
    /\ UNCHANGED <<default, threads>>

\* the caller updates a metric it holds: Counter.inc, the Gauge's value
\* setter, Histogram.update, Meter.mark or Timer.update
Use(metric) ==
    /\ registry # None
    /\ metric \in 1..Len(objects)
    /\ objects[metric].state < MaxUses
    /\ objects' = [objects EXCEPT ![metric].state = @ + 1]
    /\ last' = [op |-> "use", value |-> metric]
    /\ UNCHANGED reservoirVars
    /\ UNCHANGED <<ewma, meter, histogram, ctx, data, calls>>
    /\ UNCHANGED <<registry, default, threads>>

\* import caliper: _registry = {}
InitFacade ==
    /\ NoReservoir
    /\ ewma = None
    /\ meter = None
    /\ histogram = None
    /\ ctx = None
    /\ data = None
    /\ calls = None
    /\ registry = <<>>
    /\ objects = <<>>
    /\ default = None
    /\ threads = None
    /\ last = [op |-> "init"]

NextFacade ==
    \/ \E cls \in Classes : \E name \in FacadeNames : Facade(cls, name)
    \/ \E metric \in 1..MaxObjects : Use(metric)

\* the facade functions, and the metrics they return under use
SpecFacade == InitFacade /\ [][NextFacade]_vars

----------------------------------------------------------------------------
(* Registry.default_registry() under threads.  The method takes no lock,  *)
(* so the interpreter may switch threads between any two of its steps:     *)
(* the test of the class attribute, the construction of the Registry, the  *)
(* store into the class attribute and the load for the return.  Objects    *)
(* are indices into objects, 0 stands for None; the state of a Registry is *)
(* the number of registrations made through it.                            *)

MaxThreads == 2
MaxCalls == 2

Threads == 1..MaxThreads

\* cls(): a new, empty Registry
RegistryObject == [cls |-> "Registry", name |-> <<>>, state |-> 0]

\* `if cls._default_registry is None:` on entry to the method
DefaultCheck(t) ==
    /\ threads[t].pc = "idle"
    /\ threads[t].calls < MaxCalls
    /\ threads' = [threads EXCEPT
                     ![t].pc = IF default = 0 THEN "construct" ELSE "return",
                     ![t].calls = @ + 1]
    /\ last' = [op |-> "check", thread |-> t]
    /\ UNCHANGED reservoirVars
    /\ UNCHANGED <<ewma, meter, histogram, ctx, data, calls>>
    /\ UNCHANGED <<registry, objects, default>>

\* `cls()`, the right-hand side of the assignment
DefaultConstruct(t) ==
    /\ threads[t].pc = "construct"
    /\ objects' = Append(objects, RegistryObject)
    /\ threads' = [threads EXCEPT ![t].pc = "store",
                                  ![t].new = Len(objects) + 1]
    /\ last' = [op |-> "construct", thread |-> t]
    /\ UNCHANGED reservoirVars
    /\ UNCHANGED <<ewma, meter, histogram, ctx, data, calls>>
    /\ UNCHANGED <<registry, default>>

\* `cls._default_registry = ...`, the store of the assignment
DefaultStore(t) ==
    /\ threads[t].pc = "store"
    /\ default' = threads[t].new
    /\ threads' = [threads EXCEPT ![t].pc = "return"]
    /\ last' = [op |-> "store", thread |-> t]
    /\ UNCHANGED reservoirVars
    /\ UNCHANGED <<ewma, meter, histogram, ctx, data, calls>>
    /\ UNCHANGED <<registry, objects>>

\* `return cls._default_registry`
DefaultReturn(t) ==
    /\ threads[t].pc = "return"
    /\ threads' = [threads EXCEPT ![t].pc = "idle", ![t].ret = default]
    /\ calls' = [calls EXCEPT !.returned = @ \cup {default}]
    /\ last' = [op |-> "return", thread |-> t, value |-> default]
    /\ UNCHANGED reservoirVars
    /\ UNCHANGED <<ewma, meter, histogram, ctx, data>>
    /\ UNCHANGED <<registry, objects, default>>

\* the thread registers a metric through the Registry it was returned
RegisterThrough(t) ==
    /\ threads[t].pc = "idle"
    /\ threads[t].ret # 0
    /\ objects[threads[t].ret].state < MaxUses
    /\ objects' = [objects EXCEPT ![threads[t].ret].state = @ + 1]
    /\ last' = [op |-> "register_through", thread |-> t,
                value |-> threads[t].ret]
    /\ UNCHANGED reservoirVars
    /\ UNCHANGED <<ewma, meter, histogram, ctx, data, calls>>
    /\ UNCHANGED <<registry, default, threads>>

\* class Registry: _default_registry = None
InitDefault ==
    /\ NoReservoir
    /\ ewma = None
    /\ meter = None
    /\ histogram = None
    /\ ctx = None
    /\ data = None
    /\ calls = [returned |-> {}]
    /\ registry = None
    /\ objects = <<>>
    /\ default = 0
    /\ threads = [t \in Threads |->
                    [pc |-> "idle", new |-> 0, ret |-> 0, calls |-> 0]]
    /\ last = [op |-> "init"]

NextDefault ==
    \/ \E t \in Threads : DefaultCheck(t)
    \/ \E t \in Threads : DefaultConstruct(t)
    \/ \E t \in Threads : DefaultStore(t)
    \/ \E t \in Threads : DefaultReturn(t)
    \/ \E t \in Threads : RegisterThrough(t)

\* threads calling Registry.default_registry()
SpecDefault == InitDefault /\ [][NextDefault]_vars

----------------------------------------------------------------------------
(* Histogram, with the default reservoir its __init__ builds: an           *)
(* ExponentiallyDecayingReservoir, held in the reservoir variables.        *)

\* histogram.update(value): Counter.inc(self), then self._reservoir.update;
\* the count stays incremented when the reservoir raises
HistogramUpdate(value) ==
    /\ histogram # None
    /\ meter = None
    /\ calls.update < MaxCount
    /\ histogram' = CounterInc(histogram)
    /\ EDRUpdateCall(value, FALSE, 0)
    /\ calls' = [calls EXCEPT !.update = @ + 1]
    /\ UNCHANGED <<ewma, meter, ctx, data, moduleVars>>

\* Histogram(): SamplingMetric.__init__ and Counter.__init__
InitHistogram ==
    /\ kind = "ExponentiallyDecayingReservoir"
    /\ size \in Sizes
    /\ heap = [c \in Cells |-> <<>>]
    /\ res = 1
    /\ count = 0
    /\ now = 0
    /\ next_rescale = now + RESCALE_THRESHOLD
    /\ landmark = now
    /\ snap = NoSnap
    /\ returned = 0
    /\ hist = <<>>
    /\ last = [op |-> "init"]
    /\ ewma = None
    /\ histogram = HistogramNew
    /\ meter = None
    /\ ctx = None
    /\ data = None
    /\ NoModule
    /\ calls = [update |-> 0]

NextHistogram ==
    \/ \E v \in Values : HistogramUpdate(v)
    \/ AdvanceClock

\* a histogram with its default reservoir under update()
SpecHistogram == InitHistogram /\ [][NextHistogram]_vars

----------------------------------------------------------------------------
(* A reservoir that was given no value, its snapshot and the snapshot's   *)
(* get_value.                                                              *)

NextFresh ==
    \/ ListSnapshot
    \/ EDRSnapshot
    \/ \E q \in Quantiles : GetValue(q)
    \/ \E q \in Quantiles : WeightedGetValue(q)
    \/ AdvanceClock

\* the snapshots of a reservoir no update() was called on, under get_value
SpecFresh == Init /\ [][NextFresh]_vars

----------------------------------------------------------------------------
(* Properties *)

IsEDR == kind = "ExponentiallyDecayingReservoir"

Entries == heap[res]

Min(a, b) == IF a <= b THEN a ELSE b

\* the values of a dict's items, sorted: its multiset of values
ValuesOf(d) ==
    LET items == DictValues(d)
    IN  Sorted([i \in DOMAIN items |-> items[i][1]])

\* C1: an exponentially decaying reservoir of size k never retains more
\* than k entries, whatever updates and rescales it went through.
C1_AtMostSizeEntries ==
    IsEDR => Cardinality(DictKeys(Entries)) <= size

\* C1 witness: a full reservoir that was rescaled and then offered a sample
C1_Witness ==
    /\ IsEDR
    /\ count > size
    /\ Cardinality(DictKeys(Entries)) = size
    /\ last.op = "update" /\ last.outcome = "ok" /\ last.rescaled

\* C2: an update that finds count >= k and passes the landmark check
\* inserts the new entry and removes exactly the entry at the smallest
\* stored priority p_min when p_min < p and p is not a stored key, leaves
\* the entries as they are otherwise, and increments count in both cases.
\* The stored entries are those left by the rescale done at entry.
C2_FullUpdate ==
    [][(IsEDR /\ last'.op = "update" /\ last'.outcome = "ok"
          /\ count >= size)
       => LET d == last'.entries
              p == last'.priority
              p_min == FirstKey(d)
          IN  /\ IF p_min < p /\ p \notin DictKeys(d)
                 THEN /\ DictKeys(heap'[res]) = (DictKeys(d) \ {p_min}) \cup {p}
                      /\ heap'[res][p] = last'.sample
                      /\ \A x \in DictKeys(d) \ {p_min} : heap'[res][x] = d[x]
                 ELSE heap'[res] = d
              /\ count' = count + 1]_vars

\* C2 witness: a full reservoir evicted its smallest priority for a new one
C2_Witness ==
    /\ IsEDR
    /\ last.op = "update" /\ last.outcome = "ok"
    /\ count > size
    /\ last.priority \in DictKeys(Entries)
    /\ last.priority \notin DictKeys(last.entries)
    /\ FirstKey(last.entries) \notin DictKeys(Entries)
    /\ Cardinality(DictKeys(Entries)) = 2

\* C3: for every reservoir class, len(reservoir) is the number of update()
\* calls that returned, whatever was retained.
C3_LenCountsUpdates ==
    ReservoirLen(count, Entries) = returned

\* C3 witness: a uniform reservoir discarded the value of its last update
C3_Witness ==
    /\ kind = "UniformReservoir"
    /\ last.op = "update"
    /\ last.randint # <<>>
    /\ last.randint[1][3] >= size
    /\ returned > Len(Entries)

\* C4: an update of a uniform reservoir that finds count >= k calls
\* randint(0, count - 1) exactly once, with the count before the increment;
\* a result r < k puts the value at position r and changes no other
\* position, a result r >= k changes nothing; the buffer keeps k elements
\* and count grows by one.
C4_UniformFullUpdate ==
    [][(kind = "UniformReservoir" /\ last'.op = "update" /\ count >= size)
       => /\ Len(last'.randint) = 1
          /\ LET lo == last'.randint[1][1]
                 hi == last'.randint[1][2]
                 r == last'.randint[1][3]
             IN  /\ lo = 0 /\ hi = count - 1
                 /\ lo <= r /\ r <= hi
                 /\ IF r < size
                    THEN /\ heap'[res][r + 1] = last'.value
                         /\ \A i \in DOMAIN heap[res] :
                              i # r + 1 => heap'[res][i] = heap[res][i]
                    ELSE heap'[res] = heap[res]
          /\ Len(heap'[res]) = size
          /\ DOMAIN heap'[res] = DOMAIN heap[res]
          /\ count' = count + 1]_vars

\* C4 witness: a full uniform reservoir of two replaced one position
C4_Witness ==
    /\ kind = "UniformReservoir"
    /\ size = 2
    /\ last.op = "update"
    /\ last.randint # <<>>
    /\ last.randint[1][3] = 1
    /\ Entries[2] = last.value
    /\ Entries[1] # last.value

\* The runs of a uniform reservoir of size k over the items 1..n: one per
\* sequence of randint results.  Every run of n updates makes the same calls
\* randint(0, c - 1), c = k..n-1, so under uniform draws the runs are
\* equally likely, and the probability of an event is its share of the runs.
RECURSIVE UniformRuns(_, _)
UniformRuns(k, n) ==
    IF n = 0 THEN {[draws |-> <<>>, buf |-> <<>>]}
    ELSE LET draw == UniformDraw(n - 1, k)
             range == IF draw = <<>> THEN {0}
                      ELSE RandintRange(draw[1], draw[2])
         IN  {[draws |-> Append(run.draws, index),
               buf |-> UniformStore(run.buf, n - 1, k, n, index)] :
                run \in UniformRuns(k, n - 1), index \in range}

Retains(buf, item) == \E i \in DOMAIN buf : buf[i] = item

\* C5: after count >= k updates of a uniform reservoir of size k, every
\* value seen so far, the most recent one included, is retained with
\* probability k / count.
C5_UniformRetention ==
    (kind = "UniformReservoir" /\ count >= size)
    => LET runs == UniformRuns(size, count)
       IN  \A item \in 1..count :
             Cardinality({run \in runs : Retains(run.buf, item)}) * count
               = size * Cardinality(runs)

\* C6: a sliding window of size k that was given n values holds min(n, k)
\* of them, the most recent ones, the value of total index i at position
\* i mod k; the first k updates append, and a later update at total index
\* i overwrites position i mod k and no other.
C6_SlidingWindow ==
    /\ [](kind = "SlidingWindowReservoir"
          => LET n == Len(hist)
                 m == Min(n, size)
             IN  /\ Len(Entries) = m
                 /\ \A i \in (n - m)..(n - 1) :
                      Entries[(i % size) + 1] = hist[i + 1])
    /\ [][(kind = "SlidingWindowReservoir" /\ last'.op = "update")
          => IF count < size
             THEN heap'[res] = Append(heap[res], last'.value)
             ELSE /\ DOMAIN heap'[res] = DOMAIN heap[res]
                  /\ heap'[res][(count % size) + 1] = last'.value
                  /\ \A i \in DOMAIN heap[res] :
                       i # (count % size) + 1
                         => heap'[res][i] = heap[res][i]]_vars

\* C6 witness: a window of two wrapped around, given two different values
C6_Witness ==
    /\ kind = "SlidingWindowReservoir"
    /\ size = 2
    /\ Len(hist) = 3
    /\ hist[1] # hist[3]
    /\ Entries = <<hist[3], hist[2]>>

SnapItems ==
    IF snap.cls = "WeightedSnapshot" THEN heap[snap.ref].items
    ELSE heap[snap.ref]

\* C7: a snapshot does not change when its reservoir is updated or rescaled
\* after snapshot() returned: its values (and a weighted snapshot's weights
\* and cutoffs) stay as created, and the values are sorted ascending.
C7_SnapshotIndependent ==
    /\ [][(snap.cls # "none" /\ last'.op # "snapshot")
          => /\ snap' = snap
             /\ heap'[snap.ref] = heap[snap.ref]]_vars
    /\ [](snap.cls # "none" => IsSorted(SnapItems))

\* C7 witness: a weighted snapshot of two samples, whose reservoir was then
\* rescaled and updated
C7_Witness ==
    /\ IsEDR
    /\ snap.cls = "WeightedSnapshot"
    /\ Len(SnapItems) = 2
    /\ last.op = "update" /\ last.outcome = "ok" /\ last.rescaled
    /\ ValuesOf(Entries) # SnapItems

\* C8: update(value, t) with t <= landmark, the landmark left by the rescale
\* done at entry, fails with the assertion's error, stores nothing and
\* leaves count; so a stored sample was observed after the landmark in
\* effect at its insertion.
C8_LandmarkViolation ==
    /\ [][(IsEDR /\ last'.op = "update")
          => IF last'.timestamp <= landmark'
             THEN /\ last'.outcome = "AssertionError"
                  /\ heap'[res] = last'.entries
                  /\ count' = count
             ELSE last'.outcome = "ok"]_vars
    /\ []((IsEDR /\ last.op = "update" /\ last.outcome = "ok")
          => /\ last.timestamp > landmark
             /\ last.sample[2] = SampleWeight(last.timestamp - landmark)
             /\ last.sample[2] > SampleWeight(0))

\* C8 witness: an update rescaled and then failed the landmark check
C8_Witness ==
    /\ IsEDR
    /\ last.op = "update"
    /\ last.outcome = "AssertionError"
    /\ last.rescaled
    /\ last.timestamp = landmark
    /\ Entries # EmptyDict

\* C9: _rescale at the instant now, with the prior landmark L, sets
\* next_rescale to now + 1 hour and the landmark to now, and replaces every
\* entry p -> (v, w) by (p*s) -> (v, w*s) for s = exp(-alpha * (now - L));
\* it keeps the multiset of stored values, the number of entries and the
\* relative order of the priorities and of the weights.
C9_RescalePreserves ==
    [][(IsEDR /\ last'.op = "update" /\ last'.rescaled)
       => LET before == heap[res]
              after == last'.entries
              s == FExpNeg(now - landmark)
          IN  /\ next_rescale' = now + RESCALE_THRESHOLD
              /\ landmark' = now
              /\ DictKeys(after) = {FMul(p, s) : p \in DictKeys(before)}
              /\ \A p \in DictKeys(before) :
                   after[FMul(p, s)] = <<before[p][1], FMul(before[p][2], s)>>
              /\ ValuesOf(after) = ValuesOf(before)
              /\ Cardinality(DictKeys(after)) = Cardinality(DictKeys(before))
              /\ \A p, q \in DictKeys(before) :
                   /\ p < q => FMul(p, s) < FMul(q, s)
                   /\ before[p][2] < before[q][2]
                        => FMul(before[p][2], s) < FMul(before[q][2], s)]_vars

\* C10: once n >= k updates returned, an exponentially decaying reservoir
\* of size k retains exactly k entries, whatever the priorities drawn.
C10_ExactlySizeEntries ==
    (IsEDR /\ count >= size) => Cardinality(DictKeys(Entries)) = size

----------------------------------------------------------------------------
(* Properties of the snapshots' get_value *)

\* the snapshot of the state, and the call of get_value last made on it
SnapTuple == heap[snap.ref]

GotValue(cls) == snap.cls = cls /\ last.op = "get_value"

InUnit(q) == 0 <= q[1] /\ q[1] <= q[2]

\* C11: Snapshot.get_value(q) over the sorted values a rejects q outside
\* [0, 1] with ValueError, also when a is empty; otherwise, with
\* pos = q * (n + 1) and i = floor(pos), it returns 0 if n = 0, a[0] if
\* i = 0, a[n-1] if i >= n and a[i-1] + (pos - i) * (a[i] - a[i-1])
\* otherwise; the result lies within [a[0], a[n-1]] and does not decrease
\* when q grows.
C11_SnapshotGetValue ==
    GotValue("Snapshot") =>
      LET a == SnapTuple
          n == Len(a)
          qn == last.quantile[1]
          qd == last.quantile[2]
          r == last.result
          i == (qn * (n + 1)) \div qd
      IN  /\ IsSorted(a)
          /\ ~InUnit(last.quantile) => r.outcome = "ValueError"
          /\ InUnit(last.quantile) =>
               /\ r.outcome = "ok"
               /\ n = 0 => r.value = <<0, 1>>
               /\ (n > 0 /\ i = 0) => r.value = <<a[1], 1>>
               /\ (n > 0 /\ i >= n) => r.value = <<a[n], 1>>
               /\ (n > 0 /\ 0 < i /\ i < n) =>
                    r.value[1] * qd =
                      r.value[2] * (a[i] * qd
                                    + (qn * (n + 1) - i * qd) * (a[i + 1] - a[i]))
               /\ n > 0 => /\ a[1] * r.value[2] <= r.value[1]
                           /\ r.value[1] <= a[n] * r.value[2]
               /\ \A q2 \in Quantiles :
                    (InUnit(q2) /\ qn * q2[2] <= q2[1] * qd) =>
                      LET v2 == SnapshotGetValue(a, q2).value
                      IN  r.value[1] * v2[2] <= v2[1] * r.value[2]

\* C11 witness: a value interpolated strictly between two different
\* neighbours
C11_Witness ==
    /\ GotValue("Snapshot")
    /\ last.result.outcome = "ok"
    /\ Len(SnapTuple) >= 2
    /\ last.result.value[2] > 1
    /\ SnapTuple[1] * last.result.value[2] < last.result.value[1]

\* the exclusive prefix sums of the normalized weights, from the weights:
\* q_i (i from 0) is CumWeight(w, i) / CumWeight(w, n)
CumWeight(normweights, i) ==
    SumTo([j \in DOMAIN normweights |-> normweights[j][1]], i)

\* C12: WeightedSnapshot.get_value(q) on a non-empty snapshot, its values
\* sorted, rejects q outside [0, 1] with ValueError; otherwise, p being the
\* smallest index with q_p > q (n if there is none), it returns values[0]
\* if p <= 1 and values[p-1] otherwise; the result is one of the stored
\* values and does not decrease when q grows.
C12_WeightedGetValue ==
    (GotValue("WeightedSnapshot") /\ Len(SnapTuple.items) > 0) =>
      LET values == SnapTuple.items
          w == SnapTuple.normweights
          n == Len(values)
          total == CumWeight(w, n)
          qn == last.quantile[1]
          qd == last.quantile[2]
          r == last.result
          above == {i \in 0..(n - 1) : CumWeight(w, i) * qd > qn * total}
          p == IF above = {} THEN n
               ELSE CHOOSE i \in above : \A j \in above : i <= j
      IN  /\ IsSorted(values)
          /\ ~InUnit(last.quantile) => r.outcome = "ValueError"
          /\ InUnit(last.quantile) =>
               /\ r.outcome = "ok"
               /\ p <= 1 => r.value = <<values[1], 1>>
               /\ p > 1 => r.value = <<values[p], 1>>
               /\ \E i \in 1..n : r.value = <<values[i], 1>>
               /\ \A q2 \in Quantiles :
                    (InUnit(q2) /\ qn * q2[2] <= q2[1] * qd) =>
                      r.value[1] <= WeightedSnapshotGetValue(SnapTuple,
                                                             q2).value[1]

\* C12 witness: a quantile below 1 that yields a value above the smallest,
\* past an entry of weight 0.0
C12_Witness ==
    /\ GotValue("WeightedSnapshot")
    /\ last.result.outcome = "ok"
    /\ Len(SnapTuple.items) >= 2
    /\ last.quantile[1] < last.quantile[2]
    /\ last.result.value[1] > SnapTuple.items[1]
    /\ \E i \in DOMAIN SnapTuple.normweights : SnapTuple.normweights[i][1] = 0

----------------------------------------------------------------------------
(* Properties of the EWMA *)

\* C13: tick(), u being uncounted at entry, sets uncounted to 0 and
\* initialized to true; the first tick sets rate to u / interval, every
\* later tick sets rate to rate + alpha * (u / interval - rate).  update(n)
\* adds n to uncounted and changes nothing else.  Before the first tick
\* rate is 0, and initialized never becomes false again.
C13_EWMATick ==
    /\ []((ewma # None /\ ~ewma.initialized) => ewma.rate = <<0, 1>>)
    /\ [][ewma # None =>
            /\ ewma.initialized => ewma'.initialized
            /\ last'.op = "update" =>
                 ewma' = [ewma EXCEPT !.uncounted = ewma.uncounted + last'.n]
            /\ last'.op = "tick" =>
                 LET u == ewma.uncounted
                     i == ewma.interval[1]
                     an == ewma.alpha[1]
                     ad == ewma.alpha[2]
                     rn == ewma.rate[1]
                     rd == ewma.rate[2]
                 IN  /\ ewma'.uncounted = 0
                     /\ ewma'.initialized
                     /\ ewma'.alpha = ewma.alpha
                     /\ ewma'.interval = ewma.interval
                     /\ ~ewma.initialized =>
                          ewma'.rate[1] * i = u * ewma'.rate[2]
                     /\ ewma.initialized =>
                          ewma'.rate[1] * (rd * ad * i) =
                            ewma'.rate[2]
                              * (rn * ad * i + an * (u * rd - rn * i))]_vars

\* C13 witness: a second tick moved a non-zero rate towards another
\* instant rate
C13_Witness ==
    /\ ewma # None
    /\ last.op = "tick"
    /\ calls.tick >= 2
    /\ calls.update >= 2
    /\ ewma.rate[2] > EWMA_INTERVAL
    /\ ewma.rate[1] > 0

----------------------------------------------------------------------------
(* Properties of the Meter *)

\* the number of tick() calls the step made on the rate r
TicksOf(r) == calls'.tick[r] - calls.tick[r]

\* C14, as claimed: on every mark(), age being now - last_tick at entry,
\* each of the three EWMAs is ticked exactly floor(age / interval) times,
\* for every age, age = interval included.
C14_TicksFloorOfAge ==
    [][(meter # None /\ last'.op = "mark")
       => \A r \in Rates : TicksOf(r) = last'.age \div meter.interval]_vars

\* C14, amended: on every mark(), age being now - last_tick at entry, each
\* of the three EWMAs is ticked exactly floor(age / interval) times when
\* age > interval and not at all when age <= interval; the ticks come
\* before n is added to uncounted, which is therefore n after a mark that
\* ticked, and the first tick takes the uncounted of before the mark.
C14_TicksWhenOverInterval ==
    [][(meter # None /\ last'.op = "mark")
       => LET age == now - meter.last_tick
          IN  \A r \in Rates :
                /\ last'.age = age
                /\ age > meter.interval => TicksOf(r) = age \div meter.interval
                /\ age <= meter.interval => TicksOf(r) = 0
                /\ TicksOf(r) > 0 => meter'[r].uncounted = last'.n
                /\ TicksOf(r) = 0 =>
                     meter'[r].uncounted = meter[r].uncounted + last'.n
                /\ (TicksOf(r) = 1 /\ ~meter[r].initialized) =>
                     meter'[r].rate[1] * meter[r].interval[1]
                       = meter[r].uncounted * meter'[r].rate[2]]_vars

\* C14 witness: a mark 14 seconds after the last tick ticked twice
C14_Witness ==
    /\ meter # None
    /\ last.op = "mark"
    /\ last.age = 14
    /\ calls.mark = 2
    /\ \A r \in Rates : calls.tick[r] = 2 /\ meter[r].uncounted = last.n
    /\ meter.last_tick = now

\* C15: after any sequence of mark(n_i) calls, count is the sum of the
\* n_i; every mark calls update(n_i) once on each of the three EWMAs; and
\* the three EWMAs have the same uncounted and were ticked equally often.
C15_MarkForwards ==
    /\ [](meter # None =>
            /\ meter.count = calls.sum
            /\ \A r \in Rates :
                 /\ meter[r].uncounted = meter.m1rate.uncounted
                 /\ calls.tick[r] = calls.tick.m1rate
                 /\ calls.update[r] = calls.mark)
    /\ [][(meter # None /\ last'.op = "mark")
          => /\ meter'.count = meter.count + last'.n
             /\ \A r \in Rates :
                  /\ calls'.update[r] = calls.update[r] + 1
                  /\ meter'[r].uncounted =
                       (IF TicksOf(r) > 0 THEN 0 ELSE meter[r].uncounted)
                         + last'.n]_vars

\* C15 witness: marks of different n, with ticks between them
C15_Witness ==
    /\ meter # None
    /\ last.op = "mark"
    /\ calls.mark = 3
    /\ meter.count = 4
    /\ calls.tick.m15rate >= 1
    /\ meter.m15rate.uncounted = last.n

----------------------------------------------------------------------------
(* Properties of the Timer *)

\* the step is the exit of the timing region
RegionExits == ctx # None /\ ctx.state = "entered" /\ ctx'.state = "exited"

\* the step is, or ends in, a call of Timer.update
TimerUpdated == histogram # None /\ calls'.timer_update = calls.timer_update + 1

\* C16: when a timing region exits, the elapsed duration is forwarded to
\* Timer.update exactly once if and only if abort() was not called on it
\* and either an exception occurred inside and update_on_failure is true,
\* or none occurred and update_on_success is true; in every other case,
\* whenever abort() was called in particular, histogram and meter are left
\* as they were.
C16_RegionForwards ==
    [][RegionExits =>
        LET exc == ctx'.exc_type
            should == /\ ~ctx.aborted
                      /\ \/ exc /\ ctx.update_on_failure
                         \/ ~exc /\ ctx.update_on_success
        IN  /\ should =>
                 /\ calls'.forwarded = calls.forwarded + 1
                 /\ calls'.timer_update = calls.timer_update + 1
                 /\ (last'.op = "update" /\ last'.outcome = "ok") =>
                      last'.sample[1] = now - ctx.started
                 /\ last'.op = "timer_update" =>
                      last'.duration = now - ctx.started
            /\ ~should =>
                 /\ calls'.forwarded = calls.forwarded
                 /\ calls'.timer_update = calls.timer_update
                 /\ histogram' = histogram
                 /\ meter' = meter
                 /\ heap' = heap
                 /\ count' = count]_vars

\* C16 witness: a region that raised, set to record failures only, was
\* timed into the histogram and the meter
C16_Witness ==
    /\ ctx # None
    /\ ctx.state = "exited"
    /\ ctx.exc_type /\ ctx.update_on_failure /\ ~ctx.update_on_success
    /\ ~ctx.aborted
    /\ calls.forwarded = 1
    /\ histogram.count = 1
    /\ meter.count = 1

\* C17: Timer.update(d) with d <= 0 changes neither the histogram (count,
\* reservoir) nor the meter (count, EWMAs, last_tick); with d > 0, when it
\* returns, it has added d to the histogram and marked the meter once; so
\* as long as the calls returned normally, the histogram's count, the
\* meter's count and the number of calls with d > 0 are equal.
C17_TimerUpdate ==
    /\ []((histogram # None /\ calls.raised = 0) =>
            /\ histogram.count = calls.positive
            /\ meter.count = calls.positive
            /\ count = calls.positive)
    /\ [][TimerUpdated =>
            /\ last'.op \in {"timer_update", "update"}
            /\ last'.op = "timer_update" =>
                 /\ last'.duration <= 0
                 /\ histogram' = histogram
                 /\ meter' = meter
                 /\ heap' = heap
                 /\ count' = count
                 /\ landmark' = landmark
                 /\ next_rescale' = next_rescale
                 /\ calls'.positive = calls.positive
            /\ (last'.op = "update" /\ last'.outcome = "ok") =>
                 /\ last'.sample[1] > 0
                 /\ histogram'.count = histogram.count + 1
                 /\ count' = count + 1
                 /\ meter'.count = meter.count + 1
                 /\ calls'.mark = calls.mark + 1
                 /\ calls'.positive = calls.positive + 1]_vars

\* C17 witness: of two calls that returned, one was discarded and one
\* recorded
C17_Witness ==
    /\ histogram # None
    /\ calls.timer_update = 2
    /\ calls.raised = 0
    /\ calls.positive = 1
    /\ histogram.count = 1
    /\ meter.count = 1
    /\ count = 1

----------------------------------------------------------------------------
(* Properties of the Registry *)

\* the step is a call of register
Registers == data # None /\ last'.op = "register"

\* the prefixes of a name, the name itself being the last
Prefixes(name) == {SubSeq(name, 1, k) : k \in 1..Len(name)}

\* C18: register(name, metric) with a name that denotes an interior node
\* of the tree (a proper prefix of a registered name) raises DuplicateName
\* and leaves the tree as it was.
C18_InteriorNameRaises ==
    [][(Registers /\ last'.name \in DOMAIN data /\ IsDict(data, last'.name))
       => /\ last'.outcome = "DuplicateName"
          /\ data' = data]_vars

\* C19: register(name, metric) where the name or a proper prefix of it
\* holds a metric raises DuplicateName and leaves the tree as it was; so
\* no register call removes or replaces a registered metric, and query
\* keeps returning it under its name.
C19_LeafOnPathRaises ==
    [][Registers =>
        /\ (\E p \in Prefixes(last'.name) : p \in Leaves(data))
             => /\ last'.outcome = "DuplicateName"
                /\ data' = data
        /\ \A p \in Leaves(data) :
             /\ p \in Leaves(data')
             /\ data'[p] = data[p]
             /\ QueryWalk(data', <<>>, p) =
                  [outcome |-> "ok", value |-> data[p], at |-> p]]_vars

\* C19 witness: a name of three labels was refused because a proper prefix
\* of it holds another metric
C19_Witness ==
    /\ data # None
    /\ last.op = "register"
    /\ last.outcome = "DuplicateName"
    /\ Len(last.name) = 3
    /\ \E k \in 1..2 :
         /\ SubSeq(last.name, 1, k) \in Leaves(data)
         /\ data[SubSeq(last.name, 1, k)] # last.metric
    /\ last.name \notin DOMAIN data

\* C20: query(name) returns without raising: the metric registered under
\* the name, the interior subtree when the name is a proper prefix of
\* registered names, and nothing in every other case, also when a proper
\* prefix of the name is a registered metric.
C20_QueryReturns ==
    (data # None /\ last.op = "query") =>
      LET name == last.name
          r == last.result
      IN  /\ r.outcome = "ok"
          /\ name \in Leaves(data) => r.value = data[name]
          /\ (name \in DOMAIN data /\ IsDict(data, name)) =>
               r.value = "dict" /\ r.at = name
          /\ name \notin DOMAIN data => r.value = "None"

----------------------------------------------------------------------------
(* Properties of the names of the Registry *)

\* the label is a word of the grammar [A-Za-z_][A-Za-z0-9_]*
GrammarLabel(l) ==
    /\ Len(l) > 0
    /\ l[1] = "a"
    /\ \A i \in 2..Len(l) : l[i] \in {"a", "1"}

\* the '.'-separated segments of a name written with Chars
Segments(name) == {StrSplit(name)[i] : i \in 1..Len(StrSplit(name))}

\* the call was refused for its name
NameRejected(l) == l.outcome \in {"InvalidName", "InvalidLabel"}

\* C21: register and query reject the empty name with InvalidName and a
\* non-empty name one of whose segments is not a word of the label grammar
\* (the empty segment included) with InvalidLabel; a rejected register
\* leaves the tree as it was.
C21_NameValidation ==
    [][(data # None /\ last'.op \in {"register", "query"}) =>
        /\ last'.name = <<>> => last'.outcome = "InvalidName"
        /\ (last'.name # <<>>
              /\ \E l \in Segments(last'.name) : ~GrammarLabel(l))
             => last'.outcome = "InvalidLabel"
        /\ NameRejected(last') => data' = data]_vars

----------------------------------------------------------------------------
(* Properties of the facade *)

\* the step is a call of a facade function with an explicit name
FacadeCall == registry # None /\ last'.op = "facade" /\ last'.name # <<>>

\* the metrics created under the name, by class
CreatedAs(objs, name, cls) ==
    {i \in 1..Len(objs) : objs[i].name = name /\ objs[i].cls = cls}

\* C22: once a facade function has created a metric under a name, asking
\* for the same name through the facade function of another metric type
\* raises an error, and neither creates nor returns a second metric for
\* the name.
C22_OtherTypeRaises ==
    [][(FacadeCall
          /\ \E c \in Classes \ {last'.cls} :
               CreatedAs(objects, last'.name, c) # {})
       => /\ last'.outcome = "TypeError"
          /\ objects' = objects
          /\ registry' = registry]_vars

\* C23: the facade's get-or-create is idempotent.  At every moment at most
\* one metric exists for an explicit name and a metric type; a call for a
\* name and type that has none constructs exactly one and returns it; a
\* call for a name and type that has one returns that instance, constructs
\* nothing and leaves every metric's state as it was.
C23_GetOrCreateIdempotent ==
    /\ [](registry # None =>
            \A i \in 1..Len(objects) : \A j \in 1..Len(objects) :
              (/\ objects[i].name # <<>>
               /\ objects[i].name = objects[j].name
               /\ objects[i].cls = objects[j].cls) => i = j)
    /\ [][FacadeCall =>
            LET had == CreatedAs(objects, last'.name, last'.cls)
            IN  /\ last'.outcome = "ok"
                /\ had # {} =>
                     /\ last'.value \in had
                     /\ objects' = objects
                     /\ registry' = registry
                /\ had = {} =>
                     /\ Len(objects') = Len(objects) + 1
                     /\ SubSeq(objects', 1, Len(objects)) = objects
                     /\ last'.value = Len(objects')
                     /\ objects'[last'.value] =
                          MetricNew(last'.cls, last'.name)]_vars

\* C23 witness: a facade call returned the metric an earlier call had made
\* under the name, after the metric was updated and while the name holds a
\* metric of another type as well
C23_Witness ==
    /\ registry # None
    /\ last.op = "facade"
    /\ last.name # <<>>
    /\ last.outcome = "ok"
    /\ last.value < Len(objects)
    /\ objects[last.value].state > 0
    /\ objects[last.value].cls = last.cls
    /\ objects[last.value].name = last.name
    /\ objects[Len(objects)].name = last.name

----------------------------------------------------------------------------
(* Properties of the default registry *)

\* C24: Registry.default_registry() is safe against concurrent first
\* access: under every interleaving of the threads that call it, at most
\* one Registry is ever constructed, every call returns that one instance,
\* and a Registry that a registration was made through is the one later
\* calls return.
C24_OneDefaultRegistry ==
    /\ Len(objects) <= 1
    /\ Cardinality(calls.returned) <= 1
    /\ \A i \in 1..Len(objects) : objects[i].state > 0 => default = i

----------------------------------------------------------------------------
(* Properties of Meter._tick *)

\* the rates of the three EWMAs of a meter, and whether each was seeded
RatesOf(m) == [r \in Rates |-> <<m[r].rate, m[r].initialized>>]

\* C25: under a clock that never goes back, last_tick never decreases and
\* never exceeds the current instant; a mark() with age > interval sets
\* last_tick to the current instant, a mark() with age <= interval leaves
\* last_tick and the rates of all EWMAs as they were; and no EWMA has
\* received more ticks since construction (at instant 0) than
\* floor(now / interval).
C25_TickBookkeeping ==
    /\ [](meter # None =>
            /\ meter.last_tick <= now
            /\ \A r \in Rates : calls.tick[r] <= now \div meter.interval)
    /\ [][meter # None =>
            /\ now' >= now
            /\ meter'.last_tick >= meter.last_tick
            /\ last'.op = "mark" =>
                 LET age == now - meter.last_tick
                 IN  /\ age > meter.interval => meter'.last_tick = now
                     /\ age <= meter.interval =>
                          /\ meter'.last_tick = meter.last_tick
                          /\ RatesOf(meter') = RatesOf(meter)
                          /\ calls'.tick = calls.tick]_vars

\* C25 witness: a mark() more than an interval after an earlier tick moved
\* last_tick to the current instant, the EWMAs having been ticked as often
\* as the time since construction allows
C25_Witness ==
    /\ meter # None
    /\ last.op = "mark"
    /\ last.age > meter.interval
    /\ last.age < now
    /\ meter.last_tick = now
    /\ calls.mark >= 3
    /\ \A r \in Rates : calls.tick[r] = now \div meter.interval
    /\ calls.tick["m1rate"] >= 2

----------------------------------------------------------------------------
(* Properties of the Histogram *)

\* C26: under a clock that never goes back and may read the same twice,
\* every Histogram.update(value) on a histogram with its default reservoir
\* returns, and the histogram's count, len(reservoir) and the number of
\* update calls are equal; no call leaves count and len(reservoir)
\* different.
C26_CountIsLen ==
    /\ last.op = "update" => last.outcome = "ok"
    /\ histogram.count = ReservoirLen(count, heap[res])
    /\ histogram.count = calls.update

----------------------------------------------------------------------------
(* Properties of the snapshot of a reservoir without values *)

\* C27: for every q in [0, 1], get_value(q) on the snapshot of a reservoir
\* that has received no update returns 0 and raises nothing, whether the
\* snapshot is a Snapshot or a WeightedSnapshot (the snapshot of the
\* default reservoir of a Histogram or a Timer).
C27_EmptyGetValue ==
    (count = 0 /\ last.op = "get_value" /\ InUnit(last.quantile)) =>
      /\ last.result.outcome = "ok"
      /\ last.result.value = RatOf(0)

====
